---- MODULE Spec2Model ----
(***************************************************************************)
(* Song to Bolly Beat: the video queue engine (useVideoQueue hook) and the *)
(* recognition scheduler (useShazamRecognition hook).                      *)
(*                                                                         *)
(* The hook keeps two React states (videos, currentIndex), four refs       *)
(* (searchedQueriesRef, currentQueryRef, currentVideoIdRef,                *)
(* currentIndexRef) and schedules work with setTimeout.  Every event loop  *)
(* task (a call of the hook's API, the continuation after the awaited      *)
(* search, a timer callback) is one action: React applies the state        *)
(* updaters the task enqueued, in order, on the latest state, before the   *)
(* next task is observed.  Pending timeouts are kept in the order they     *)
(* were scheduled; a timeout may run once no timeout scheduled before it   *)
(* with a delay no longer than its own is still pending, which is every    *)
(* order of firing the delays allow.                                       *)
(*                                                                         *)
(* The repository holds three versions of the hook.  QueueSpec is the one  *)
(* with the swap timers (inside useShazamRecognition.ts); Queue2Spec is    *)
(* frontend/src/hooks/useVideoQueue.ts, whose replace mode resets the      *)
(* queue; Queue1Spec is src/hooks/useVideoQueue.ts, append only.  SwapSpec *)
(* and DedupSpec are the first hook under narrower call sequences.         *)
(*                                                                         *)
(* The recognition scheduler (useShazamRecognition of unnamed/part_006     *)
(* with useAudioCapture and useShazam) is the record sched; SchedSpec runs *)
(* it under every call of its API, ToggleSpec under one start() and        *)
(* switches of enabled, UnconfSpec in a build without a recognize URL,     *)
(* RestartSpec under the start, stop and start again of the page, and      *)
(* LiveSpec in a session left running, with the fairness of the event      *)
(* loop.                                                                   *)
(*                                                                         *)
(* The continuous transcription hook (useContinuousListening) is the       *)
(* record listen; ListenSpec runs it under every call of its API, and      *)
(* ListenFairSpec adds that a restart timer that was set fires.            *)
(*                                                                         *)
(* The recognize server (backend/recognize/server.ts) is the record        *)
(* server; ServerSpec runs it under overlapping uploads.                   *)
(*                                                                         *)
(* The specifications of one component leave the others alone.             *)
(***************************************************************************)
EXTENDS Integers, Sequences, FiniteSets, Bags, TLC

VARIABLES
    videos,             \* useState<YouTubeVideo[]>: sequence of [id, q, replace]
    currentIndex,       \* useState(0): 0-based index as in the source
    isLoading,          \* useState(false)
    error,              \* useState<string | null>(null)
    searchedQueriesRef, \* useRef<Set<string>>: normalized queries
    currentQueryRef,    \* useRef<string>(''): trimmed query of the last replace
    currentVideoIdRef,  \* useRef<string | null>(null)
    currentIndexRef,    \* useRef<number>(0)
    inflight,           \* bag of searches awaiting supabase.functions.invoke
    timers,             \* pending setTimeout callbacks, in scheduling order
    searchCalls,        \* history: number of searches issued
    appendSearched,     \* history: normalized queries searched in append mode since clearQueue
    appendSearchedCur,  \* history: the same, since clearQueue or the last replace that changed the query
    navs,               \* history: number of goToNext/goToPrevious calls that moved the pointer
    sched,              \* the recognition scheduler: the states and refs of useShazamRecognition,
                        \* useAudioCapture and useShazam, the clock, timers and pending events
    listen,             \* the continuous transcription hook: the states and refs of
                        \* useContinuousListening, its recognition sessions and timers
    server              \* the recognize server: its clock, the files of its upload
                        \* directory and the requests it has received

qvars == <<videos, currentIndex, isLoading, error, searchedQueriesRef,
           currentQueryRef, currentVideoIdRef, currentIndexRef, inflight,
           timers, searchCalls, appendSearched, appendSearchedCur, navs>>

vars == <<videos, currentIndex, isLoading, error, searchedQueriesRef,
          currentQueryRef, currentVideoIdRef, currentIndexRef, inflight,
          timers, searchCalls, appendSearched, appendSearchedCur, navs, sched, listen,
          server>>

NULL == "null"

-----------------------------------------------------------------------------
(* Bounds of the model *)

MaxSearches == 2      \* searches issued in one behaviour
MaxNavs == 2          \* goToNext/goToPrevious calls that move the pointer, in one behaviour

-----------------------------------------------------------------------------
(* Program constants *)

AdvanceDelay == 500   \* setTimeout(..., 500) of the replace merge
RemoveDelay == 300    \* setTimeout(..., 300) of the advance
TrimDelay == 100      \* setTimeout(..., 100) of goToNext
ScrollDelay == 500    \* setTimeout(..., 500) of the autoScroll branch
TrimWindow == 5       \* slice(0, newIndex + 5)
ClosureCurrentIndex == 0 \* currentIndex captured by useCallback(..., [])

-----------------------------------------------------------------------------
(* Strings are sequences of one-character strings. *)

IsSpace(c) == c = " "

RECURSIVE TrimStart(_)
TrimStart(s) ==
    IF s = <<>> THEN <<>>
    ELSE IF IsSpace(Head(s)) THEN TrimStart(Tail(s)) ELSE s

RECURSIVE TrimEnd(_)
TrimEnd(s) ==
    IF s = <<>> THEN <<>>
    ELSE IF IsSpace(s[Len(s)]) THEN TrimEnd(SubSeq(s, 1, Len(s) - 1)) ELSE s

Trim(s) == TrimEnd(TrimStart(s))

LowerChar(c) ==
    CASE c = "A" -> "a"
      [] c = "B" -> "b"
      [] OTHER -> c

ToLowerCase(s) == [i \in 1..Len(s) |-> LowerChar(s[i])]

NormalizeQuery(query) == ToLowerCase(Trim(query))

\* The queries the two producers pass to addVideosFromQuery.
RawQueries == { <<"a">>, <<" ", "a", " ">>, <<"B">>, <<" ">> }

-----------------------------------------------------------------------------
(* Array helpers with JavaScript semantics (0-based arguments). *)

Min(a, b) == IF a < b THEN a ELSE b
Max(a, b) == IF a > b THEN a ELSE b

\* Array.prototype.slice(0, end)
SliceTo(s, end) ==
    LET n == IF end < 0 THEN Max(Len(s) + end, 0) ELSE Min(end, Len(s))
    IN SubSeq(s, 1, n)

\* arr[i] is defined
HasIndex(s, i) == i >= 0 /\ i < Len(s)

\* arr[i] for a defined index
At(s, i) == s[i + 1]

\* arr.filter((_, idx) => idx !== k)
RemoveAt(s, k) ==
    IF HasIndex(s, k)
    THEN SubSeq(s, 1, k) \o SubSeq(s, k + 2, Len(s))
    ELSE s

Ids(s) == { s[i].id : i \in 1..Len(s) }

IdSeq(s) == [i \in 1..Len(s) |-> s[i].id]

UniqueNewVideos_All(prev, newVideos) == newVideos

\* newVideos.filter(v => !existingIds.has(v.id))
UniqueNewVideos(prev, newVideos) ==
    SelectSeq(newVideos, LAMBDA v : v.id \notin Ids(prev))

\* updatedVideos.findIndex(v => v.id === id), -1 when absent
FindIndex(s, id) ==
    IF \E i \in 1..Len(s) : s[i].id = id
    THEN (CHOOSE i \in 1..Len(s) :
             s[i].id = id /\ \A j \in 1..(i - 1) : s[j].id # id) - 1
    ELSE -1

-----------------------------------------------------------------------------
(* Search results *)

\* The static payload substituted when the search fails.
FallbackIds ==
    << "gsSfJAI6h9g", "UPDDPeF6ktU", "LMXdTT9mPQE", "QPxu18lMiCc",
       "kDMKiF1gFXE", "BDBt2dFAP1c", "o-2eoKQRVHw", "XL2qju0HE54",
       "4pmoUNwcVFQ", "o5DCiLbQZU8" >>

\* data.videos of a successful response: what the external index returned.
Batches ==
    { <<>>, <<"V1">>, <<"V1", "V1">>, <<"V1", "V2">>,
      <<"V2", "V3">> }

\* A video as delivered for a call; q and replace record the search it came
\* from.
Delivered(ids, call) == [i \in 1..Len(ids) |-> [id |-> ids[i], q |-> call.normalizedQuery, replace |-> call.replace]]

Outcomes == [ok : {TRUE}, ids : Batches] \cup [ok : {FALSE}, ids : {<<>>}]

\* newVideos in the try block, or the fallback payload in the catch block.
NewVideos(call, outcome) ==
    IF outcome.ok THEN Delivered(outcome.ids, call) ELSE Delivered(FallbackIds, call)

-----------------------------------------------------------------------------
(* The recognition scheduler: useShazamRecognition of unnamed/part_006 on top
   of useAudioCapture and useShazam, as pages/Index.tsx sets it up. Every
   event-loop task (a timer callback, a resolved promise, a recorder event, a
   call of the hook's API) is one step, taken together with the render and
   the effects that follow it. Time is counted in units of 1000 ms. *)

IntervalMs == 5         \* intervalMs: 5000
CaptureDuration == 5    \* captureDuration: 5000
WarmupDelay == 1        \* setTimeout(captureAndIdentify, 1000)
MinUsableSize == 1000   \* file.size < 1000 is refused by the recognize server
LongSample == 5 * MinUsableSize   \* size of a sample recorded for a unit of time or more

MaxTime == 12
MaxOps == 2

TrackKeys == {"k1", "k2"}
NoMatch == "nomatch"
NoTimer == 0
NoBlob == [id |-> 0, size |-> 0]
NoStream == 0

\* The state after the first render, before the mount effects.
Constructed(autoStart) ==
    [ now |-> 1, autoStart |-> autoStart,
      isEnabled |-> TRUE, isProcessing |-> FALSE, isProcessingRef |-> FALSE,
      isCapturing |-> FALSE, isCapturingRef |-> FALSE, isListening |-> FALSE,
      audioBlob |-> NoBlob, intervalRef |-> NoTimer,
      lastTrackKeyRef |-> NULL, lastApiCallTimeRef |-> 0,
      shazamError |-> NULL, captureError |-> NULL,
      mediaRecorderRef |-> 0, timeoutRef |-> NoTimer,
      streamRef |-> NoStream, streams |-> {},
      recording |-> {}, acquiring |-> 0, stopping |-> {},
      configured |-> TRUE, attempts |-> 0, refused |-> FALSE,
      chunksRef |-> {}, identified |-> FALSE,
      tmrs |-> {}, requests |-> {}, nextId |-> 1,
      calls |-> <<>>, captures |-> 0, answers |-> <<>>, callbacks |-> <<>>,
      started |-> FALSE, stopped |-> FALSE, ops |-> 0 ]

AddTimer(s, kind, delay, enabled) ==
    [s EXCEPT !.tmrs = @ \cup {[id |-> s.nextId, kind |-> kind,
                                at |-> s.now + delay, enabled |-> enabled]},
              !.nextId = @ + 1]

ClearTimer(s, id) == [s EXCEPT !.tmrs = {t \in @ : t.id # id}]

\* mediaRecorder.state === 'recording'
IsRecording(s, id) == \E r \in s.recording : r.id = id

\* mediaRecorder.stop(): the recorder becomes inactive and its stop event is
\* queued; the event carries what was recorded so far.
StopRecorder(s, id) ==
    IF IsRecording(s, id)
    THEN LET r == CHOOSE r \in s.recording : r.id = id
         IN [s EXCEPT !.recording = @ \ {r},
                      !.stopping = @ \cup {[id |-> id,
                                            early |-> (s.now = r.since)]}]
    ELSE s

\* The sizes a stopped recording can have.
SampleSizes(early) == IF early THEN {0, 200} ELSE {LongSample}

\* stream.getTracks().forEach(track => track.stop()): the stream is released,
\* and a recorder that records it stops, all its tracks having ended. A
\* recorder has the id of the stream it records.
StopTracks(s, id) == StopRecorder([s EXCEPT !.streams = @ \ {id}], id)

\* if (streamRef.current) { ...track.stop(); streamRef.current = null }
ReleaseStream(s) ==
    IF s.streamRef # NoStream
    THEN [StopTracks(s, s.streamRef) EXCEPT !.streamRef = NoStream]
    ELSE s

\* useAudioCapture: cleanup
Cleanup(s) ==
    LET a == [ClearTimer(s, s.timeoutRef) EXCEPT !.timeoutRef = NoTimer]
    IN ReleaseStream(StopRecorder(a, a.mediaRecorderRef))

\* useAudioCapture: stopListening
StopCapture(s) ==
    LET a == IF IsRecording(s, s.mediaRecorderRef)
             THEN [StopRecorder(s, s.mediaRecorderRef) EXCEPT !.isCapturing = TRUE]
             ELSE s
    IN [a EXCEPT !.isListening = FALSE]

\* useAudioCapture: startListening up to the await of getUserMedia
StartCapture(s) ==
    [Cleanup([s EXCEPT !.captureError = NULL, !.audioBlob = NoBlob,
                       !.chunksRef = {},
                       !.captures = @ + 1])
        EXCEPT !.acquiring = @ + 1]

\* useAudioCapture: startListening after getUserMedia resolved
Granted(s) ==
    LET a == [s EXCEPT !.acquiring = @ - 1,
                       !.streamRef = s.nextId,
                       !.streams = @ \cup {s.nextId},
                       !.mediaRecorderRef = s.nextId,
                       !.recording = @ \cup {[id |-> s.nextId, since |-> s.now]},
                       !.nextId = @ + 1,
                       !.isListening = TRUE]
    IN [AddTimer(a, "autostop", CaptureDuration, TRUE) EXCEPT !.timeoutRef = a.nextId]

\* useAudioCapture: startListening after getUserMedia was refused
Denied(s) ==
    [s EXCEPT !.acquiring = @ - 1, !.captureError = "capture",
              !.isListening = FALSE, !.isCapturing = FALSE,
              !.refused = TRUE]

\* new Blob(chunksRef.current).size
RECURSIVE BlobSize(_)
BlobSize(chunks) ==
    IF chunks = {} THEN 0
    ELSE LET c == CHOOSE c \in chunks : TRUE
         IN c.size + BlobSize(chunks \ {c})

\* if (event.data.size > 0) chunksRef.current.push(event.data)
OnDataAvailable(chunks, e, size) ==
    IF size > 0 THEN chunks \cup {[id |-> e.id, size |-> size]} ELSE chunks

\* useAudioCapture: mediaRecorder.ondataavailable and mediaRecorder.onstop of
\* the recorder e, whose events follow each other, `size` being what it
\* recorded. A chunk of chunksRef has the id of its recorder.
OnStop(s, e, size) ==
    ReleaseStream([s EXCEPT !.stopping = @ \ {e},
                            !.chunksRef = OnDataAvailable(@, e, size),
                            !.audioBlob = [id |-> e.id,
                                           size |-> BlobSize(OnDataAvailable(s.chunksRef, e, size))],
                            !.isCapturing = FALSE, !.isListening = FALSE])

\* The effects that copy isCapturing and isProcessing into their refs.
SyncRefs(s) ==
    [s EXCEPT !.isCapturingRef = s.isCapturing,
              !.isProcessingRef = s.isProcessing]

TimeSinceLastCall(s) ==
    IF s.lastApiCallTimeRef = 0 THEN IntervalMs + 1
                                ELSE s.now - s.lastApiCallTimeRef

\* if (audioBlob && ...): a Blob is an object, whatever its size
HasBlob(s) == s.audioBlob # NoBlob

\* The effect that processes the captured audio, up to the promise that
\* identifySong returns. Without a recognize URL identifySong sets its error
\* and resolves to null without a request, and isProcessing is false again
\* once the promise callbacks have run, before any other task.
ProcessAudio(s) ==
    IF HasBlob(s) /\ ~s.isProcessing /\ s.isEnabled
    THEN IF TimeSinceLastCall(s) < IntervalMs
         THEN s
         ELSE IF ~s.configured
         THEN [s EXCEPT !.lastApiCallTimeRef = s.now,
                        !.shazamError = "unconfigured",
                        !.attempts = @ + 1]
         ELSE [s EXCEPT !.lastApiCallTimeRef = s.now,
                        !.isProcessing = TRUE,
                        !.shazamError = NULL,
                        !.attempts = @ + 1,
                        !.requests = @ \cup {[n |-> Len(s.calls) + 1,
                                              sample |-> s.audioBlob.id,
                                              size |-> s.audioBlob.size]},
                        !.calls = Append(@, [at |-> s.now,
                                             sample |-> s.audioBlob.id,
                                             size |-> s.audioBlob.size])]
    ELSE s

\* The dependencies of the effect that change in the model.
Deps(s) == <<s.audioBlob, s.isProcessing, s.isEnabled>>

\* The render after a task: the effect runs again when a dependency changed.
Commit(old, new) ==
    SyncRefs(IF Deps(new) # Deps(old) THEN ProcessAudio(new) ELSE new)

\* captureAndIdentify of the startListening call made while isEnabled was
\* `enabled`
CaptureAndIdentify(s, enabled) ==
    IF ~enabled \/ s.isCapturingRef \/ s.isProcessingRef
    THEN s
    ELSE IF s.lastApiCallTimeRef > 0 /\ s.now - s.lastApiCallTimeRef < IntervalMs
         THEN AddTimer(s, "oneshot",
                       IntervalMs - (s.now - s.lastApiCallTimeRef), enabled)
         ELSE StartCapture(s)

\* The callback of the deferred one-shot timer.
AfterWait(s, enabled) ==
    IF ~s.isCapturingRef /\ ~s.isProcessingRef /\ enabled
    THEN StartCapture(s)
    ELSE s

\* startListening of the render in which isEnabled is s.isEnabled
StartListening(s) ==
    LET a == [ClearTimer(s, s.intervalRef) EXCEPT !.intervalRef = NoTimer,
                                                  !.lastApiCallTimeRef = 0,
                                                  !.started = TRUE,
                                                  !.stopped = FALSE,
                                                  !.refused = FALSE,
                                                  !.identified = FALSE]
        b == AddTimer(a, "warmup", WarmupDelay, s.isEnabled)
    IN [AddTimer(b, "interval", IntervalMs, s.isEnabled) EXCEPT !.intervalRef = b.nextId]

StopListening(s) ==
    StopCapture([ClearTimer(s, s.intervalRef) EXCEPT !.intervalRef = NoTimer])

\* The effect "Auto-start if enabled", run without a previous cleanup.
AutoStartEffect(s) ==
    IF s.autoStart /\ s.isEnabled THEN StartListening(s) ELSE s

\* The effect "Update when enabled changes".
EnabledEffect(s) ==
    IF ~s.isEnabled /\ s.intervalRef # NoTimer THEN StopListening(s)
    ELSE IF s.isEnabled /\ s.autoStart /\ s.intervalRef = NoTimer
         THEN StartListening(s)
         ELSE s

\* The state after the mount effects.
Mounted(autoStart) == SyncRefs(EnabledEffect(AutoStartEffect(Constructed(autoStart))))

\* setEnabled, and the render it causes when isEnabled changed: the cleanup
\* of the auto-start effect, then the effects in the order of the source.
SetEnabledTo(s, enabled) ==
    LET a == [s EXCEPT !.isEnabled = enabled]
        b == IF ~enabled THEN StopCapture(a) ELSE a
    IN IF enabled = s.isEnabled
       THEN SyncRefs(b)
       ELSE SyncRefs(EnabledEffect(AutoStartEffect(ProcessAudio(StopListening(b)))))

\* track.key !== lastTrackKeyRef.current
IsNewTrack_Always(key, lastKey) == TRUE

IsNewTrack(key, lastKey) == key # lastKey

\* What the recognition service can answer for a sample.
Answers(size) == IF size < MinUsableSize THEN {NoMatch} ELSE TrackKeys \cup {NoMatch}

Identified_NoFinally(s, req, answer) ==
    [s EXCEPT !.requests = @ \ {req}, !.answers = Append(@, answer)]

\* The promise of identifySong settles: then, catch and finally.
Identified(s, req, answer) ==
    LET a == [s EXCEPT !.requests = @ \ {req},
                       !.answers = Append(@, answer),
                       !.shazamError = IF answer = NoMatch THEN "recognize" ELSE NULL,
                       !.isProcessing = FALSE]
        b == [a EXCEPT !.identified = @ \/ answer # NoMatch]
    IN IF answer # NoMatch /\ IsNewTrack(answer, s.lastTrackKeyRef)
       THEN [b EXCEPT !.lastTrackKeyRef = answer,
                      !.callbacks = Append(@, answer)]
       ELSE b

\* error: shazamError || captureError
ReportedError(s) == IF s.shazamError # NULL THEN s.shazamError ELSE s.captureError

\* One more call of the hook's API is within the bound of the model.
Op(s) == [s EXCEPT !.ops = @ + 1]

\* The scheduler of a page that never starts it.
SchedIdle == sched = Constructed(FALSE)

-----------------------------------------------------------------------------
(* The continuous transcription hook: useContinuousListening of
   src/hooks/useContinuousListening.ts. A recognition session is running from
   start() until the environment ends it or abort() is called; the end event
   of an aborted session is dispatched later. Timers fire at any time; the
   delays are not counted. recognition.onstart is taken together with
   start(), and the error state, which only recognition.onerror sets, is left
   out. *)

MaxListenOps == 3
MaxResults == 2
MaxEnds == 2

NoSession == 0

\* The final and the interim text of a result event.
FinalTranscripts == { <<>>, <<"a">>, <<"b">>, <<" ">> }
InterimTranscripts == { <<>>, <<"c">> }

\* The state after the first render.
ListenConstructed ==
    [ isListening |-> FALSE, currentTranscript |-> <<>>,
      recognitionRef |-> NoSession, accumulatedTextRef |-> <<>>,
      lastEmittedTextRef |-> <<>>, intervalRef |-> NoTimer,
      shouldRestartRef |-> FALSE,
      running |-> {}, ending |-> {}, intervals |-> {}, restarts |-> 0,
      nextId |-> 1,
      emitted |-> <<>>, released |-> {}, restarted |-> 0,
      stopped |-> FALSE, ops |-> 0, results |-> 0, ends |-> 0 ]

\* text && text !== lastEmittedTextRef.current (onNewTranscript is given)
IsNewText(text, last) == text # <<>> /\ text # last

\* useContinuousListening: emitTranscript
EmitTranscript(l) ==
    LET text == Trim(l.accumulatedTextRef) IN
    IF IsNewText(text, l.lastEmittedTextRef)
    THEN [l EXCEPT !.emitted = Append(@, text),
                   !.lastEmittedTextRef = text,
                   !.accumulatedTextRef = <<>>,
                   !.currentTranscript = <<>>]
    ELSE l

\* recognition.abort(): a running session stops and its end event is queued
Abort(l, id) ==
    IF id \in l.running
    THEN [l EXCEPT !.running = @ \ {id}, !.ending = @ \cup {id}]
    ELSE l

\* useContinuousListening: stopListening
StopContinuous(l) ==
    LET a == [l EXCEPT !.shouldRestartRef = FALSE]
        b == IF a.recognitionRef # NoSession
             THEN [Abort(a, a.recognitionRef) EXCEPT !.recognitionRef = NoSession,
                                                     !.released = @ \cup {a.recognitionRef}]
             ELSE a
        c == IF b.intervalRef # NoTimer
             THEN [b EXCEPT !.intervals = @ \ {b.intervalRef},
                            !.intervalRef = NoTimer]
             ELSE b
    IN [c EXCEPT !.isListening = FALSE, !.stopped = TRUE]

\* useContinuousListening: startListening, in a browser that supports
\* speech recognition
StartContinuous(l) ==
    [l EXCEPT !.accumulatedTextRef = <<>>,
              !.lastEmittedTextRef = <<>>,
              !.currentTranscript = <<>>,
              !.shouldRestartRef = TRUE,
              !.recognitionRef = l.nextId,
              !.running = @ \cup {l.nextId},
              !.isListening = TRUE,
              !.intervalRef = l.nextId + 1,
              !.intervals = @ \cup {l.nextId + 1},
              !.nextId = @ + 2,
              !.stopped = FALSE]

\* recognition.onresult
OnResult(l, final, interim) ==
    LET a == IF final # <<>>
             THEN [l EXCEPT !.accumulatedTextRef = @ \o <<" ">> \o final]
             ELSE l
    IN [a EXCEPT !.currentTranscript = a.accumulatedTextRef \o <<" ">> \o interim,
                 !.results = @ + 1]

ShouldRestart_Never(l) == FALSE

\* if (shouldRestartRef.current) in recognition.onend
ShouldRestart(l) == l.shouldRestartRef

\* recognition.onend
OnEnd(l) ==
    IF ShouldRestart(l) THEN [l EXCEPT !.restarts = @ + 1]
                        ELSE [l EXCEPT !.isListening = FALSE]

\* recognition.start() inside try/catch: it throws when the session is
\* started already
StartSession(l, id) ==
    IF id \in l.running \cup l.ending
    THEN l
    ELSE [l EXCEPT !.running = @ \cup {id}, !.isListening = TRUE,
                   !.restarted = @ + 1]

\* The callback of the restart timer of recognition.onend.
RestartCallback(l) ==
    IF l.shouldRestartRef /\ l.recognitionRef # NoSession
    THEN StartSession(l, l.recognitionRef)
    ELSE l

\* The transcription hook of a page that never starts it.
ListenIdle == listen = ListenConstructed

-----------------------------------------------------------------------------
(* The recognize server: POST /api/recognize of backend/recognize/server.ts.
   multer names the file of an upload when the upload begins and has written
   it when the handler is called; the handler runs up to its await of the
   recognition engine, and its continuation runs when the engine settles. A
   file is the pair of its path and the request that wrote it; writing to an
   existing path replaces the file. *)

MaxUploads == 3
MaxClock == 2

\* path.extname(file.originalname) || '.webm'
Exts == {".webm", ".wav"}

\* file.size of an upload
UploadSizes == {200, LongSample}

\* What shazam.fromFilePath does with a file it can read.
EngineOutcomes == {"match", "nomatch", "error"}

\* The server after app.listen.
ServerStarted == [clock |-> 1, files |-> {}, requests |-> {}, nextReq |-> 1]

\* `recording-${Date.now()}${ext}` in uploadDir
FileName(now, ext) == <<now, ext>>

\* fs.existsSync(filePath)
ExistsSync(files, filePath) == \E f \in files : f.path = filePath

UnlinkSync_Keep(files, filePath) == files

\* fs.unlinkSync(filePath); an error is caught and ignored
UnlinkSync(files, filePath) == {f \in files : f.path # filePath}

\* multer.diskStorage: the upload is written to its path
WriteFile(files, filePath, id) ==
    UnlinkSync(files, filePath) \cup {[path |-> filePath, writer |-> id]}

\* The writer of the file at filePath, 0 if there is no file.
WriterOf(files, filePath) ==
    IF ExistsSync(files, filePath)
    THEN (CHOOSE f \in files : f.path = filePath).writer
    ELSE 0

\* upload.single('audio') receives the file of a request.
Uploaded(v, ext, size) ==
    LET filePath == FileName(v.clock, ext) IN
    [v EXCEPT !.files = WriteFile(@, filePath, v.nextReq),
              !.requests = @ \cup {[id |-> v.nextReq, path |-> filePath,
                                    size |-> size, state |-> "uploaded",
                                    answer |-> NULL, read |-> 0]},
              !.nextReq = @ + 1]

\* request r with its fields changed
WithRequest(v, r, new) == [v EXCEPT !.requests = (@ \ {r}) \cup {new}]

\* The handler up to the await: a file below 1000 bytes is removed and
\* answered with 400, any other is given to the engine.
Recognize(v, r) ==
    IF r.size < MinUsableSize
    THEN WithRequest([v EXCEPT !.files = UnlinkSync(@, r.path)], r,
                     [r EXCEPT !.state = "answered", !.answer = "short"])
    ELSE WithRequest(v, r, [r EXCEPT !.state = "engine"])

\* What the engine can return for the path: it fails on a missing file.
EngineResults(files, filePath) ==
    IF ExistsSync(files, filePath) THEN EngineOutcomes ELSE {"error"}

\* The handler after the await: the response, then the finally block.
EngineSettled(v, r, outcome) ==
    WithRequest([v EXCEPT !.files = IF ExistsSync(@, r.path)
                                    THEN UnlinkSync(@, r.path) ELSE @],
                r, [r EXCEPT !.state = "answered", !.answer = outcome,
                             !.read = WriterOf(v.files, r.path)])

ServerIdle == server = ServerStarted

-----------------------------------------------------------------------------
(* Timers *)

Timer(kind, delay, idx, snap) == [kind |-> kind, delay |-> delay, idx |-> idx, snap |-> snap]

BagAdd(b, e) == b (+) SetToBag({e})
BagRemove(b, e) == b (-) SetToBag({e})

\* setTimeout(callback, delay)
Schedule(ts, t) == Append(ts, t)

\* The k-th pending timeout leaves the list when its callback runs.
Unschedule(ts, k) == SubSeq(ts, 1, k - 1) \o SubSeq(ts, k + 1, Len(ts))

\* The k-th pending timeout may run now: every timeout scheduled before it
\* that is still pending has a longer delay.
MayFire(ts, k) == \A j \in 1..(k - 1) : ts[j].delay > ts[k].delay

Init ==
    /\ videos = <<>>
    /\ currentIndex = 0
    /\ isLoading = FALSE
    /\ error = NULL
    /\ searchedQueriesRef = {}
    /\ currentQueryRef = <<>>
    /\ currentVideoIdRef = NULL
    /\ currentIndexRef = 0
    /\ inflight = EmptyBag
    /\ timers = <<>>
    /\ searchCalls = 0
    /\ appendSearched = {}
    /\ appendSearchedCur = {}
    /\ navs = 0

-----------------------------------------------------------------------------
(* addVideosFromQuery: the synchronous part, up to the awaited search *)

\* prev.slice(0, currentIdx + 1) with currentIdx = currentIndexRef.current
ReplaceTruncate(prev, currentIdx) == SliceTo(prev, currentIdx + 1)

IsDifferentQuery_Always(normalizedQuery, currentQuery) == TRUE

\* normalizedQuery !== currentQueryRef.current.toLowerCase()
IsDifferentQuery(normalizedQuery, currentQuery) ==
    normalizedQuery # ToLowerCase(currentQuery)

AlreadySearched_Never(normalizedQuery, searched) == FALSE

\* searchedQueriesRef.current.has(normalizedQuery)
AlreadySearched(normalizedQuery, searched) == normalizedQuery \in searched

IsBlankQuery_Never(query) == FALSE

\* if (!query.trim()) return
IsBlankQuery(query) == Trim(query) = <<>>

Call(query, replace, autoScroll) ==
    [normalizedQuery |-> NormalizeQuery(query), replace |-> replace,
     autoScroll |-> autoScroll]

\* The call returns before searching.
ReturnsEarly(query, replace) ==
    \/ IsBlankQuery(query)
    \/ replace /\ ~IsDifferentQuery(NormalizeQuery(query), currentQueryRef)
    \/ ~replace /\ AlreadySearched(NormalizeQuery(query), searchedQueriesRef)

AddVideosFromQuery(query, replace, autoScroll) ==
    LET normalizedQuery == NormalizeQuery(query) IN
    IF ReturnsEarly(query, replace)
    THEN UNCHANGED qvars
    ELSE
      /\ IF replace
         THEN /\ videos' = ReplaceTruncate(videos, currentIndexRef)
              /\ searchedQueriesRef' = {}
              /\ currentQueryRef' = Trim(query)
              /\ appendSearchedCur' = {}
              /\ UNCHANGED appendSearched
         ELSE /\ searchedQueriesRef' = searchedQueriesRef \cup {normalizedQuery}
              /\ appendSearched' = appendSearched \cup {normalizedQuery}
              /\ appendSearchedCur' = appendSearchedCur \cup {normalizedQuery}
              /\ UNCHANGED <<videos, currentQueryRef>>
      /\ isLoading' = TRUE
      /\ error' = NULL
      /\ inflight' = BagAdd(inflight, Call(query, replace, autoScroll))
      /\ searchCalls' = searchCalls + 1
      /\ UNCHANGED <<currentIndex, currentVideoIdRef, currentIndexRef, timers, navs>>

-----------------------------------------------------------------------------
(* addVideosFromQuery: the continuation after the search has settled *)

\* [...prev, ...uniqueNewVideos]
ReplaceMerge(prev, newVideos) == prev \o UniqueNewVideos(prev, newVideos)

\* [...uniqueNewVideos, ...prev]
AppendMerge(prev, newVideos) == UniqueNewVideos(prev, newVideos) \o prev

\* prevIndex + uniqueNewVideos.length
ShiftedIndex(prevIndex, prev, newVideos) ==
    prevIndex + Len(UniqueNewVideos(prev, newVideos))

\* currentVideoIdRef.current || (prev[currentIndex]?.id ?? null)
AutoScrollVideoId(prev) ==
    IF currentVideoIdRef # NULL THEN currentVideoIdRef
    ELSE IF HasIndex(prev, ClosureCurrentIndex) THEN At(prev, ClosureCurrentIndex).id
    ELSE NULL

\* The id a ref takes from arr[i], when arr[i] is defined.
RefFrom(s, i, old) == IF HasIndex(s, i) THEN At(s, i).id ELSE old

ReplaceCompletes(call, newVideos) ==
    LET updatedVideos == ReplaceMerge(videos, newVideos) IN
    /\ videos' = updatedVideos
    /\ timers' = IF Len(UniqueNewVideos(videos, newVideos)) > 0
                 THEN Schedule(timers, Timer("advance", AdvanceDelay, 0, updatedVideos))
                 ELSE timers
    /\ searchedQueriesRef' = searchedQueriesRef \cup {call.normalizedQuery}
    /\ UNCHANGED <<currentIndex, currentIndexRef, currentVideoIdRef>>

AppendCompletes(call, newVideos) ==
    LET updatedVideos == AppendMerge(videos, newVideos)
        currentVideoId == AutoScrollVideoId(videos)
        foundIndex == FindIndex(updatedVideos, currentVideoId)
        newIndex == ShiftedIndex(currentIndex, videos, newVideos)
    IN
    /\ UNCHANGED searchedQueriesRef
    /\ IF Len(UniqueNewVideos(videos, newVideos)) = 0
       THEN UNCHANGED <<videos, currentIndex, currentIndexRef, currentVideoIdRef, timers>>
       ELSE
         /\ videos' = updatedVideos
         /\ IF Len(videos) = 0
            THEN /\ currentIndex' = 0
                 /\ currentIndexRef' = 0
                 /\ currentVideoIdRef' = RefFrom(updatedVideos, 0, currentVideoIdRef)
                 /\ UNCHANGED timers
            ELSE IF call.autoScroll
            THEN /\ IF currentVideoId # NULL /\ foundIndex # -1
                    THEN /\ currentIndex' = foundIndex
                         /\ currentIndexRef' = foundIndex
                         /\ currentVideoIdRef' = currentVideoId
                    ELSE UNCHANGED <<currentIndex, currentIndexRef, currentVideoIdRef>>
                 /\ timers' = Schedule(timers, Timer("scroll", ScrollDelay, 0, updatedVideos))
            ELSE /\ currentIndex' = newIndex
                 /\ currentIndexRef' = newIndex
                 /\ currentVideoIdRef' = RefFrom(updatedVideos, newIndex, currentVideoIdRef)
                 /\ UNCHANGED timers

\* The awaited search of one in-flight call settles with `outcome`.
SearchCompletes(call, outcome) ==
    /\ BagIn(call, inflight)
    /\ IF call.replace
       THEN ReplaceCompletes(call, NewVideos(call, outcome))
       ELSE AppendCompletes(call, NewVideos(call, outcome))
    /\ error' = IF outcome.ok THEN error ELSE NULL
    /\ isLoading' = FALSE
    /\ inflight' = BagRemove(inflight, call)
    /\ UNCHANGED <<currentQueryRef, searchCalls, appendSearched, appendSearchedCur, navs>>

-----------------------------------------------------------------------------
(* Timer callbacks *)

\* const nextIndex = prevIndex + 1
AdvancedIndex(prevIndex) == prevIndex + 1

\* currentVideos.filter((_, idx) => idx !== prevIndex)
WithoutOldVideo(currentVideos, prevIndex) == RemoveAt(currentVideos, prevIndex)

\* const adjustedIndex = currentIdx - 1
AdjustedIndex(currentIdx) == currentIdx - 1

\* currentVideos.slice(0, newIndex + 5)
Trimmed(currentVideos, newIndex) == SliceTo(currentVideos, newIndex + TrimWindow)

\* The 500 ms callback of a replace merge: scroll to the next video and
\* schedule the removal of the video at the old index.
AdvanceFires(k) ==
    LET prevIndex == currentIndex
        nextIndex == AdvancedIndex(prevIndex)
    IN
    /\ timers[k].kind = "advance" /\ MayFire(timers, k)
    /\ currentIndex' = nextIndex
    /\ currentIndexRef' = nextIndex
    /\ currentVideoIdRef' = RefFrom(timers[k].snap, nextIndex, currentVideoIdRef)
    /\ timers' = Schedule(Unschedule(timers, k), Timer("remove", RemoveDelay, prevIndex, <<>>))
    /\ UNCHANGED <<videos, isLoading, error, searchedQueriesRef, currentQueryRef,
                   inflight, searchCalls, appendSearched, appendSearchedCur, navs>>

\* The 300 ms callback scheduled by the advance.
RemoveFires(k) ==
    /\ timers[k].kind = "remove" /\ MayFire(timers, k)
    /\ videos' = WithoutOldVideo(videos, timers[k].idx)
    /\ currentIndex' = AdjustedIndex(currentIndex)
    /\ currentIndexRef' = AdjustedIndex(currentIndex)
    /\ timers' = Unschedule(timers, k)
    /\ UNCHANGED <<isLoading, error, searchedQueriesRef, currentQueryRef,
                   currentVideoIdRef, inflight, searchCalls, appendSearched,
                   appendSearchedCur, navs>>

\* The 100 ms callback scheduled by goToNext.
TrimFires(k) ==
    /\ timers[k].kind = "trim" /\ MayFire(timers, k)
    /\ videos' = Trimmed(videos, timers[k].idx)
    /\ timers' = Unschedule(timers, k)
    /\ UNCHANGED <<currentIndex, isLoading, error, searchedQueriesRef,
                   currentQueryRef, currentVideoIdRef, currentIndexRef, inflight,
                   searchCalls, appendSearched, appendSearchedCur, navs>>

\* The 500 ms callback of an autoScroll append merge.
ScrollFires(k) ==
    /\ timers[k].kind = "scroll" /\ MayFire(timers, k)
    /\ currentIndex' = 0
    /\ currentIndexRef' = 0
    /\ currentVideoIdRef' = RefFrom(timers[k].snap, 0, currentVideoIdRef)
    /\ timers' = Unschedule(timers, k)
    /\ UNCHANGED <<videos, isLoading, error, searchedQueriesRef, currentQueryRef,
                   inflight, searchCalls, appendSearched, appendSearchedCur, navs>>

-----------------------------------------------------------------------------
(* Navigation and reset *)

CanGoNext_Always(prev, vs) == TRUE

\* prev < videos.length - 1
CanGoNext(prev, vs) == prev < Len(vs) - 1

\* prev > 0
CanGoPrevious(prev) == prev > 0

GoToNext ==
    LET newIndex == currentIndex + 1 IN
    IF CanGoNext(currentIndex, videos)
    THEN /\ navs < MaxNavs
         /\ navs' = navs + 1
         /\ currentIndex' = newIndex
         /\ currentIndexRef' = newIndex
         /\ currentVideoIdRef' = RefFrom(videos, newIndex, currentVideoIdRef)
         /\ timers' = Schedule(timers, Timer("trim", TrimDelay, newIndex, <<>>))
         /\ UNCHANGED <<videos, isLoading, error, searchedQueriesRef,
                        currentQueryRef, inflight, searchCalls, appendSearched,
                        appendSearchedCur>>
    ELSE UNCHANGED qvars

GoToPrevious ==
    LET newIndex == currentIndex - 1 IN
    IF CanGoPrevious(currentIndex)
    THEN /\ navs < MaxNavs
         /\ navs' = navs + 1
         /\ currentIndex' = newIndex
         /\ currentIndexRef' = newIndex
         /\ currentVideoIdRef' = RefFrom(videos, newIndex, currentVideoIdRef)
         /\ UNCHANGED <<videos, isLoading, error, searchedQueriesRef,
                        currentQueryRef, inflight, timers, searchCalls,
                        appendSearched, appendSearchedCur>>
    ELSE UNCHANGED qvars

ClearQueue ==
    /\ videos' = <<>>
    /\ currentIndex' = 0
    /\ currentIndexRef' = 0
    /\ searchedQueriesRef' = {}
    /\ currentQueryRef' = <<>>
    /\ currentVideoIdRef' = NULL
    /\ appendSearched' = {}
    /\ appendSearchedCur' = {}
    /\ UNCHANGED <<isLoading, error, inflight, timers, searchCalls, navs>>

-----------------------------------------------------------------------------

\* replace defaults to false and autoScroll to false; autoScroll is read in
\* append mode only.
CallModes == { <<TRUE, FALSE>>, <<FALSE, FALSE>>, <<FALSE, TRUE>> }

\* A call that searches is taken only while fewer than `limit` searches have
\* been issued; a call that returns early is always possible.
WithinBudget(limit, query, replace) ==
    ReturnsEarly(query, replace) \/ searchCalls < limit

Enqueue == \E query \in RawQueries, mode \in CallModes :
               /\ WithinBudget(MaxSearches, query, mode[1])
               /\ AddVideosFromQuery(query, mode[1], mode[2])

Completion == \E call \in BagToSet(inflight), outcome \in Outcomes :
                  SearchCompletes(call, outcome)

TimerFires == \E k \in 1..Len(timers) :
                  AdvanceFires(k) \/ RemoveFires(k) \/ TrimFires(k) \/ ScrollFires(k)

QueueNext ==
    \/ Enqueue /\ UNCHANGED <<sched, listen, server>>
    \/ Completion /\ UNCHANGED <<sched, listen, server>>
    \/ TimerFires /\ UNCHANGED <<sched, listen, server>>
    \/ GoToNext /\ UNCHANGED <<sched, listen, server>>
    \/ GoToPrevious /\ UNCHANGED <<sched, listen, server>>
    \/ ClearQueue /\ UNCHANGED <<sched, listen, server>>

QueueInit == Init /\ SchedIdle /\ ListenIdle /\ ServerIdle

QueueSpec == QueueInit /\ [][QueueNext]_vars

-----------------------------------------------------------------------------
(* The hook of frontend/src/hooks/useVideoQueue.ts, which pages/Index.tsx
   imports: a replace call empties the queue and its results become the
   queue; an append merge shifts the index in a zero-delay timeout. *)

ShiftDelay == 0

AddVideosFromQuery2(query, replace) ==
    LET normalizedQuery == NormalizeQuery(query) IN
    IF ReturnsEarly(query, replace)
    THEN UNCHANGED qvars
    ELSE
      /\ IF replace
         THEN /\ videos' = <<>>
              /\ currentIndex' = 0
              /\ searchedQueriesRef' = {}
              /\ currentQueryRef' = Trim(query)
              /\ appendSearchedCur' = {}
              /\ UNCHANGED appendSearched
         ELSE /\ searchedQueriesRef' = searchedQueriesRef \cup {normalizedQuery}
              /\ appendSearched' = appendSearched \cup {normalizedQuery}
              /\ appendSearchedCur' = appendSearchedCur \cup {normalizedQuery}
              /\ UNCHANGED <<videos, currentIndex, currentQueryRef>>
      /\ isLoading' = TRUE
      /\ error' = NULL
      /\ inflight' = BagAdd(inflight, Call(query, replace, FALSE))
      /\ searchCalls' = searchCalls + 1
      /\ UNCHANGED <<currentVideoIdRef, currentIndexRef, timers, navs>>

\* The awaited search settles; a failed search falls back to the sample
\* payload and is merged the same way.
SearchCompletes2(call, outcome) ==
    LET newVideos == NewVideos(call, outcome)
        uniqueNewVideos == UniqueNewVideos(videos, newVideos)
    IN
    /\ BagIn(call, inflight)
    /\ IF call.replace
       THEN /\ videos' = newVideos
            /\ currentIndex' = 0
            /\ searchedQueriesRef' = searchedQueriesRef \cup {call.normalizedQuery}
            /\ UNCHANGED timers
       ELSE /\ videos' = AppendMerge(videos, newVideos)
            /\ timers' = Schedule(timers,
                             Timer("shift", ShiftDelay, Len(uniqueNewVideos), videos))
            /\ UNCHANGED <<currentIndex, searchedQueriesRef>>
    /\ error' = IF outcome.ok THEN error ELSE NULL
    /\ isLoading' = FALSE
    /\ inflight' = BagRemove(inflight, call)
    /\ UNCHANGED <<currentQueryRef, currentVideoIdRef, currentIndexRef, searchCalls,
                   appendSearched, appendSearchedCur, navs>>

\* The zero-delay callback of an append merge; snap is prev, idx the number
\* of unique new videos.
ShiftFires2(k) ==
    /\ timers[k].kind = "shift" /\ MayFire(timers, k)
    /\ currentIndex' = IF Len(timers[k].snap) = 0 THEN 0
                       ELSE IF timers[k].idx > 0 THEN currentIndex + timers[k].idx
                       ELSE currentIndex
    /\ timers' = Unschedule(timers, k)
    /\ UNCHANGED <<videos, isLoading, error, searchedQueriesRef, currentQueryRef,
                   currentVideoIdRef, currentIndexRef, inflight, searchCalls,
                   appendSearched, appendSearchedCur, navs>>

GoToNext2 ==
    LET newIndex == currentIndex + 1 IN
    IF CanGoNext(currentIndex, videos)
    THEN /\ navs < MaxNavs
         /\ navs' = navs + 1
         /\ currentIndex' = newIndex
         /\ timers' = Schedule(timers, Timer("trim", TrimDelay, newIndex, <<>>))
         /\ UNCHANGED <<videos, isLoading, error, searchedQueriesRef,
                        currentQueryRef, currentVideoIdRef, currentIndexRef,
                        inflight, searchCalls, appendSearched, appendSearchedCur>>
    ELSE UNCHANGED qvars

GoToPrevious2 ==
    IF CanGoPrevious(currentIndex)
    THEN /\ currentIndex' = currentIndex - 1
         /\ UNCHANGED <<videos, isLoading, error, searchedQueriesRef,
                        currentQueryRef, currentVideoIdRef, currentIndexRef,
                        inflight, timers, searchCalls, appendSearched,
                        appendSearchedCur, navs>>
    ELSE UNCHANGED qvars

ClearQueue2 ==
    /\ videos' = <<>>
    /\ currentIndex' = 0
    /\ searchedQueriesRef' = {}
    /\ currentQueryRef' = <<>>
    /\ appendSearched' = {}
    /\ appendSearchedCur' = {}
    /\ UNCHANGED <<isLoading, error, currentVideoIdRef, currentIndexRef, inflight,
                   timers, searchCalls, navs>>

Enqueue2 == \E query \in RawQueries, replace \in BOOLEAN :
                /\ WithinBudget(MaxSearches, query, replace)
                /\ AddVideosFromQuery2(query, replace)

Completion2 == \E call \in BagToSet(inflight), outcome \in Outcomes :
                   SearchCompletes2(call, outcome)

TimerFires2 == \E k \in 1..Len(timers) : ShiftFires2(k) \/ TrimFires(k)

Queue2Next ==
    \/ Enqueue2 /\ UNCHANGED <<sched, listen, server>>
    \/ Completion2 /\ UNCHANGED <<sched, listen, server>>
    \/ TimerFires2 /\ UNCHANGED <<sched, listen, server>>
    \/ GoToNext2 /\ UNCHANGED <<sched, listen, server>>
    \/ GoToPrevious2 /\ UNCHANGED <<sched, listen, server>>
    \/ ClearQueue2 /\ UNCHANGED <<sched, listen, server>>

Queue2Init == Init /\ SchedIdle /\ ListenIdle /\ ServerIdle

Queue2Spec == Queue2Init /\ [][Queue2Next]_vars

-----------------------------------------------------------------------------
(* The hook of src/hooks/useVideoQueue.ts: append only, no fallback, and the
   index is shifted by the size of the batch. *)

SearchFailedMessage == "Failed to search videos"

\* prev + newVideos.length
BatchShiftedIndex(prev, newVideos) == prev + Len(newVideos)

AddVideosFromQuery1(query) ==
    LET normalizedQuery == NormalizeQuery(query) IN
    IF IsBlankQuery(query) \/ AlreadySearched(normalizedQuery, searchedQueriesRef)
    THEN UNCHANGED qvars
    ELSE
      /\ searchedQueriesRef' = searchedQueriesRef \cup {normalizedQuery}
      /\ appendSearched' = appendSearched \cup {normalizedQuery}
      /\ appendSearchedCur' = appendSearchedCur \cup {normalizedQuery}
      /\ isLoading' = TRUE
      /\ error' = NULL
      /\ inflight' = BagAdd(inflight, Call(query, FALSE, FALSE))
      /\ searchCalls' = searchCalls + 1
      /\ UNCHANGED <<videos, currentIndex, currentQueryRef, currentVideoIdRef,
                     currentIndexRef, timers, navs>>

SearchCompletes1(call, outcome) ==
    LET newVideos == Delivered(outcome.ids, call) IN
    /\ BagIn(call, inflight)
    /\ IF outcome.ok
       THEN /\ videos' = AppendMerge(videos, newVideos)
            /\ currentIndex' = BatchShiftedIndex(currentIndex, newVideos)
            /\ UNCHANGED error
       ELSE /\ error' = SearchFailedMessage
            /\ UNCHANGED <<videos, currentIndex>>
    /\ isLoading' = FALSE
    /\ inflight' = BagRemove(inflight, call)
    /\ UNCHANGED <<searchedQueriesRef, currentQueryRef, currentVideoIdRef,
                   currentIndexRef, timers, searchCalls, appendSearched,
                   appendSearchedCur, navs>>

GoToNext1 ==
    LET newIndex == currentIndex + 1 IN
    IF CanGoNext(currentIndex, videos)
    THEN /\ navs < MaxNavs
         /\ navs' = navs + 1
         /\ currentIndex' = newIndex
         /\ timers' = Schedule(timers, Timer("trim", TrimDelay, newIndex, <<>>))
         /\ UNCHANGED <<videos, isLoading, error, searchedQueriesRef,
                        currentQueryRef, currentVideoIdRef, currentIndexRef,
                        inflight, searchCalls, appendSearched, appendSearchedCur>>
    ELSE UNCHANGED qvars

GoToPrevious1 ==
    IF CanGoPrevious(currentIndex)
    THEN /\ currentIndex' = currentIndex - 1
         /\ UNCHANGED <<videos, isLoading, error, searchedQueriesRef,
                        currentQueryRef, currentVideoIdRef, currentIndexRef,
                        inflight, timers, searchCalls, appendSearched,
                        appendSearchedCur, navs>>
    ELSE UNCHANGED qvars

ClearQueue1 ==
    /\ videos' = <<>>
    /\ currentIndex' = 0
    /\ searchedQueriesRef' = {}
    /\ appendSearched' = {}
    /\ appendSearchedCur' = {}
    /\ UNCHANGED <<isLoading, error, currentQueryRef, currentVideoIdRef,
                   currentIndexRef, inflight, timers, searchCalls, navs>>

Enqueue1 == \E query \in RawQueries :
                /\ WithinBudget(MaxSearches, query, FALSE)
                /\ AddVideosFromQuery1(query)

Completion1 == \E call \in BagToSet(inflight), outcome \in Outcomes :
                   SearchCompletes1(call, outcome)

TimerFires1 == \E k \in 1..Len(timers) : TrimFires(k)

Queue1Next ==
    \/ Enqueue1 /\ UNCHANGED <<sched, listen, server>>
    \/ Completion1 /\ UNCHANGED <<sched, listen, server>>
    \/ TimerFires1 /\ UNCHANGED <<sched, listen, server>>
    \/ GoToNext1 /\ UNCHANGED <<sched, listen, server>>
    \/ GoToPrevious1 /\ UNCHANGED <<sched, listen, server>>
    \/ ClearQueue1 /\ UNCHANGED <<sched, listen, server>>

Queue1Init == Init /\ SchedIdle /\ ListenIdle /\ ServerIdle

Queue1Spec == Queue1Init /\ [][Queue1Next]_vars

-----------------------------------------------------------------------------
(* One replace call on a queue that an earlier append search filled, with
   nothing else happening once the replace call is made *)

\* Every search has settled and every scheduled step has run.
Settledown == inflight = EmptyBag /\ timers = <<>>

\* The first call of the session: an append search on the empty queue.
SwapSeed == \E query \in RawQueries :
                /\ searchCalls = 0
                /\ AddVideosFromQuery(query, FALSE, FALSE)

\* The user moves on in the settled queue before the new song is found.
SwapBrowse == Settledown /\ currentQueryRef = <<>> /\ GoToNext

\* The replace call, made on a settled queue.
SwapReplace == \E query \in RawQueries :
                   /\ Settledown /\ currentQueryRef = <<>>
                   /\ WithinBudget(MaxSearches, query, TRUE)
                   /\ AddVideosFromQuery(query, TRUE, FALSE)

SwapNext ==
    \/ SwapSeed /\ UNCHANGED <<sched, listen, server>>
    \/ SwapBrowse /\ UNCHANGED <<sched, listen, server>>
    \/ SwapReplace /\ UNCHANGED <<sched, listen, server>>
    \/ Completion /\ UNCHANGED <<sched, listen, server>>
    \/ TimerFires /\ UNCHANGED <<sched, listen, server>>

SwapInit == Init /\ SchedIdle /\ ListenIdle /\ ServerIdle

SwapSpec == SwapInit /\ [][SwapNext]_vars

-----------------------------------------------------------------------------
(* Three searches with small outcomes, for the properties of query dedup *)

MaxDedupSearches == 3

DedupOutcomes == { [ok |-> TRUE, ids |-> <<"V1">>], [ok |-> FALSE, ids |-> <<>>] }

\* autoScroll is read by the merge only; the calls here leave it at its default.
DedupModes == { <<TRUE, FALSE>>, <<FALSE, FALSE>> }

DedupEnqueue == \E query \in RawQueries, mode \in DedupModes :
                    /\ WithinBudget(MaxDedupSearches, query, mode[1])
                    /\ AddVideosFromQuery(query, mode[1], mode[2])

DedupCompletion == \E call \in BagToSet(inflight), outcome \in DedupOutcomes :
                       SearchCompletes(call, outcome)

DedupNext ==
    \/ DedupEnqueue /\ UNCHANGED <<sched, listen, server>>
    \/ DedupCompletion /\ UNCHANGED <<sched, listen, server>>
    \/ TimerFires /\ UNCHANGED <<sched, listen, server>>
    \/ ClearQueue /\ UNCHANGED <<sched, listen, server>>

DedupInit == Init /\ SchedIdle /\ ListenIdle /\ ServerIdle

DedupSpec == DedupInit /\ [][DedupNext]_vars

-----------------------------------------------------------------------------
(* Append searches and browsing *)

BrowseSearch == \E query \in RawQueries :
                    /\ WithinBudget(MaxSearches, query, FALSE)
                    /\ AddVideosFromQuery(query, FALSE, FALSE)

BrowseNext ==
    \/ BrowseSearch /\ UNCHANGED <<sched, listen, server>>
    \/ Completion /\ UNCHANGED <<sched, listen, server>>
    \/ TimerFires /\ UNCHANGED <<sched, listen, server>>
    \/ GoToNext /\ UNCHANGED <<sched, listen, server>>
    \/ GoToPrevious /\ UNCHANGED <<sched, listen, server>>

BrowseInit == Init /\ SchedIdle /\ ListenIdle /\ ServerIdle

BrowseSpec == BrowseInit /\ [][BrowseNext]_vars

-----------------------------------------------------------------------------
(* The steps of the recognition scheduler *)

\* The page is mounted with either value of autoStart; the queue is not used.
SchedInit == Init /\ ListenIdle /\ ServerIdle /\ \E autoStart \in BOOLEAN : sched = Mounted(autoStart)

Start ==
    /\ sched.ops < MaxOps
    /\ sched' = Op(StartListening(sched))
    /\ UNCHANGED <<qvars, listen, server>>

Stop ==
    /\ sched.ops < MaxOps
    /\ sched' = Op(Commit(sched, [StopListening(sched) EXCEPT !.stopped = TRUE]))
    /\ UNCHANGED <<qvars, listen, server>>

SetEnabled ==
    /\ sched.ops < MaxOps
    /\ \E enabled \in BOOLEAN : sched' = Op(SetEnabledTo(sched, enabled))
    /\ UNCHANGED <<qvars, listen, server>>

\* onSongIdentified is a new function after latestQuery changed in the page.
CallbackChanges ==
    /\ sched.ops < MaxOps
    /\ sched' = Op(SyncRefs(ProcessAudio(sched)))
    /\ UNCHANGED <<qvars, listen, server>>

Due(s) == {t \in s.tmrs : t.at <= s.now}

WarmupFires == \E t \in Due(sched) :
    /\ t.kind = "warmup"
    /\ sched' = Commit(sched, CaptureAndIdentify(ClearTimer(sched, t.id), t.enabled))
    /\ UNCHANGED <<qvars, listen, server>>

IntervalFires == \E t \in Due(sched) :
    /\ t.kind = "interval"
    /\ sched' = Commit(sched,
          CaptureAndIdentify([sched EXCEPT !.tmrs = (@ \ {t}) \cup
                                 {[t EXCEPT !.at = sched.now + IntervalMs]}],
                             t.enabled))
    /\ UNCHANGED <<qvars, listen, server>>

OneShotFires == \E t \in Due(sched) :
    /\ t.kind = "oneshot"
    /\ sched' = Commit(sched, AfterWait(ClearTimer(sched, t.id), t.enabled))
    /\ UNCHANGED <<qvars, listen, server>>

AutoStopFires == \E t \in Due(sched) :
    /\ t.kind = "autostop"
    /\ sched' = Commit(sched, StopCapture(ClearTimer(sched, t.id)))
    /\ UNCHANGED <<qvars, listen, server>>

MediaGranted ==
    /\ sched.acquiring > 0
    /\ sched' = Commit(sched, Granted(sched))
    /\ UNCHANGED <<qvars, listen, server>>

MediaDenied ==
    /\ sched.acquiring > 0
    /\ sched' = Commit(sched, Denied(sched))
    /\ UNCHANGED <<qvars, listen, server>>

RecorderStopped == \E e \in sched.stopping : \E size \in SampleSizes(e.early) :
    /\ sched' = Commit(sched, OnStop(sched, e, size))
    /\ UNCHANGED <<qvars, listen, server>>

RecognitionCompletes == \E req \in sched.requests : \E answer \in Answers(req.size) :
    /\ sched' = Commit(sched, Identified(sched, req, answer))
    /\ UNCHANGED <<qvars, listen, server>>

\* A unit of time passes when no timer is due; getUserMedia settles and a
\* stop event is dispatched well within a unit of time. The answer of the
\* recognition service may take any time.
TimePassesUntil(limit) ==
    /\ Due(sched) = {}
    /\ sched.acquiring = 0
    /\ sched.stopping = {}
    /\ sched.now < limit
    /\ sched' = [sched EXCEPT !.now = @ + 1]
    /\ UNCHANGED <<qvars, listen, server>>

TimePasses == TimePassesUntil(MaxTime)

SchedNext ==
    \/ Start
    \/ Stop
    \/ SetEnabled
    \/ CallbackChanges
    \/ WarmupFires
    \/ IntervalFires
    \/ OneShotFires
    \/ AutoStopFires
    \/ MediaGranted
    \/ MediaDenied
    \/ RecorderStopped
    \/ RecognitionCompletes
    \/ TimePasses

SchedSpec == SchedInit /\ [][SchedNext]_vars

-----------------------------------------------------------------------------
(* A session that the page starts once and in which it only switches the
   scheduler off and on *)

MaxToggles == 2

SessionStart ==
    /\ ~sched.started
    /\ sched' = StartListening(sched)
    /\ UNCHANGED <<qvars, listen, server>>

Toggle ==
    /\ sched.started
    /\ sched.ops < MaxToggles
    /\ sched' = Op(SetEnabledTo(sched, ~sched.isEnabled))
    /\ UNCHANGED <<qvars, listen, server>>

ToggleNext ==
    \/ SessionStart
    \/ Toggle
    \/ WarmupFires
    \/ IntervalFires
    \/ OneShotFires
    \/ AutoStopFires
    \/ MediaGranted
    \/ MediaDenied
    \/ RecorderStopped
    \/ RecognitionCompletes
    \/ TimePasses

ToggleSpec == SchedInit /\ [][ToggleNext]_vars

-----------------------------------------------------------------------------
(* The scheduler of the page, started by handleStartListening and restarted
   by handleListenAgain: stopShazam() at once and startShazam() from a
   timer. *)

MaxRestarts == 1

\* Index: handleListenAgain, stopShazam()
ListenAgain ==
    /\ sched.started /\ ~sched.stopped
    /\ sched.ops < MaxRestarts
    /\ sched' = Op(Commit(sched, [StopListening(sched) EXCEPT !.stopped = TRUE]))
    /\ UNCHANGED <<qvars, listen, server>>

\* Index: the timer of handleListenAgain calls handleStartListening
StartAgain ==
    /\ sched.stopped
    /\ sched' = StartListening(sched)
    /\ UNCHANGED <<qvars, listen, server>>

RestartNext ==
    \/ SessionStart
    \/ ListenAgain
    \/ StartAgain
    \/ WarmupFires
    \/ IntervalFires
    \/ OneShotFires
    \/ AutoStopFires
    \/ MediaGranted
    \/ MediaDenied
    \/ RecorderStopped
    \/ RecognitionCompletes
    \/ TimePasses

RestartInit == Init /\ ListenIdle /\ ServerIdle /\ sched = Mounted(FALSE)

RestartSpec == RestartInit /\ [][RestartNext]_vars

-----------------------------------------------------------------------------
(* A session that stays started and enabled, from the call of
   startListening on. A timer that is due fires, a queued stop event is
   dispatched and a request is answered; the microphone is granted. *)

LiveMaxTime == 20

\* The time within which the attempt after a failed one is made.
RetryWithin == 10

LiveTimePasses == TimePassesUntil(LiveMaxTime)

LiveNext ==
    \/ WarmupFires
    \/ IntervalFires
    \/ OneShotFires
    \/ AutoStopFires
    \/ MediaGranted
    \/ RecorderStopped
    \/ RecognitionCompletes
    \/ LiveTimePasses

LiveInit == Init /\ ListenIdle /\ ServerIdle /\ sched = StartListening(Mounted(FALSE))

LiveSpec ==
    /\ LiveInit /\ [][LiveNext]_vars
    /\ WF_vars(WarmupFires) /\ WF_vars(IntervalFires) /\ WF_vars(OneShotFires)
    /\ WF_vars(AutoStopFires)
    /\ WF_vars(MediaGranted)
    /\ WF_vars(RecorderStopped) /\ WF_vars(RecognitionCompletes)
    /\ WF_vars(LiveTimePasses)

-----------------------------------------------------------------------------
(* The scheduler of a build without VITE_RECOGNIZE_API_URL *)

UnconfInit ==
    Init /\ ListenIdle /\ ServerIdle /\ sched = [Mounted(FALSE) EXCEPT !.configured = FALSE]

UnconfNext ==
    \/ Start
    \/ Stop
    \/ WarmupFires
    \/ IntervalFires
    \/ OneShotFires
    \/ AutoStopFires
    \/ MediaGranted
    \/ MediaDenied
    \/ RecorderStopped
    \/ TimePasses

UnconfSpec == UnconfInit /\ [][UnconfNext]_vars

-----------------------------------------------------------------------------
(* The steps of the continuous transcription hook *)

ContinuousStarts ==
    /\ listen.ops < MaxListenOps
    /\ listen' = Op(StartContinuous(listen))
    /\ UNCHANGED <<qvars, sched, server>>

ContinuousStops ==
    /\ listen.ops < MaxListenOps
    /\ listen' = Op(StopContinuous(listen))
    /\ UNCHANGED <<qvars, sched, server>>

\* A running session, held or not, delivers a result.
ResultArrives == \E final \in FinalTranscripts, interim \in InterimTranscripts :
    /\ listen.running # {}
    /\ listen.results < MaxResults
    /\ listen' = OnResult(listen, final, interim)
    /\ UNCHANGED <<qvars, sched, server>>

\* The environment ends a running session.
StreamEnds == \E id \in listen.running :
    /\ listen.ends < MaxEnds
    /\ listen' = OnEnd([listen EXCEPT !.running = @ \ {id}, !.ends = @ + 1])
    /\ UNCHANGED <<qvars, sched, server>>

\* The end event of an aborted session.
AbortedEnds == \E id \in listen.ending :
    /\ listen' = OnEnd([listen EXCEPT !.ending = @ \ {id}])
    /\ UNCHANGED <<qvars, sched, server>>

RestartFires ==
    /\ listen.restarts > 0
    /\ listen' = RestartCallback([listen EXCEPT !.restarts = @ - 1])
    /\ UNCHANGED <<qvars, sched, server>>

\* A tick of an interval that has not been cleared.
EmissionTick ==
    /\ listen.intervals # {}
    /\ listen' = EmitTranscript(listen)
    /\ UNCHANGED <<qvars, sched, server>>

ListenNext ==
    \/ ContinuousStarts
    \/ ContinuousStops
    \/ ResultArrives
    \/ StreamEnds
    \/ AbortedEnds
    \/ RestartFires
    \/ EmissionTick

ListenInit == Init /\ SchedIdle /\ ListenIdle /\ ServerIdle

ListenSpec == ListenInit /\ [][ListenNext]_vars

\* A timer that has been set fires: the restart callback is not postponed
\* for ever.
ListenFairSpec == ListenSpec /\ WF_vars(RestartFires)

-----------------------------------------------------------------------------
(* The steps of the recognize server *)

UploadArrives == \E ext \in Exts, size \in UploadSizes :
    /\ server.nextReq <= MaxUploads
    /\ server' = Uploaded(server, ext, size)
    /\ UNCHANGED <<qvars, sched, listen>>

HandlerRuns == \E r \in server.requests :
    /\ r.state = "uploaded"
    /\ server' = Recognize(server, r)
    /\ UNCHANGED <<qvars, sched, listen>>

EngineSettles == \E r \in server.requests :
    /\ r.state = "engine"
    /\ \E outcome \in EngineResults(server.files, r.path) :
          server' = EngineSettled(server, r, outcome)
    /\ UNCHANGED <<qvars, sched, listen>>

\* Date.now() moves on by a millisecond.
ClockTicks ==
    /\ server.clock < MaxClock
    /\ server' = [server EXCEPT !.clock = @ + 1]
    /\ UNCHANGED <<qvars, sched, listen>>

ServerNext ==
    \/ UploadArrives
    \/ HandlerRuns
    \/ EngineSettles
    \/ ClockTicks

ServerInit == Init /\ SchedIdle /\ ListenIdle /\ ServerIdle

ServerSpec == ServerInit /\ [][ServerNext]_vars

-----------------------------------------------------------------------------
(* Properties of the queue *)

\* C1: whenever videos is non-empty, 0 <= currentIndex < videos.length, in
\* every state reached by any interleaving of enqueue, navigation, clear,
\* search completions and the deferred advance, removal and trim steps.
C1_IndexInBounds ==
    videos # <<>> => (0 <= currentIndex /\ currentIndex < Len(videos))

\* C2: videos never holds two entries with the same id, whatever the search
\* batches contain.
C2_NoDuplicateIds ==
    \A i, j \in 1..Len(videos) : i # j => videos[i].id # videos[j].id

\* The step is the synchronous part of a call that issued a search.
Issued(call) ==
    /\ searchCalls' = searchCalls + 1
    /\ inflight' = BagAdd(inflight, call)

\* The step is the continuation of `call` after its search settled.
Settled(call) ==
    /\ BagIn(call, inflight)
    /\ inflight' = BagRemove(inflight, call)

Calls == [normalizedQuery : { NormalizeQuery(q) : q \in RawQueries } \ {<<>>},
          replace : BOOLEAN, autoScroll : BOOLEAN]

\* The steps that remove videos: the truncation of a replace call, the
\* deferred removal of the old video, the deferred trim of goToNext.
TruncationStep == \E call \in Calls : call.replace /\ Issued(call)

\* A step that keeps a prefix of videos keeps the video at currentIndex.
PrefixKeepsCurrent == currentIndex < Len(videos')

\* C3: no removing step removes the video that is at currentIndex when the
\* removal is applied.
C3_RemovalSparesCurrent ==
    [][ HasIndex(videos, currentIndex) =>
          /\ TruncationStep => PrefixKeepsCurrent
          /\ \A k \in 1..Len(timers) :
                /\ TrimFires(k) => PrefixKeepsCurrent
                /\ RemoveFires(k) => timers[k].idx # currentIndex ]_qvars

\* The continuation of a replace call merges its results.
ReplaceMergeStep == \E call \in BagToSet(inflight) : call.replace /\ Settled(call)

\* The video at currentIndex is the same video after the step.
SameCurrentVideo ==
    /\ HasIndex(videos', currentIndex')
    /\ At(videos', currentIndex') = At(videos, currentIndex)

\* C4: a replace call with a query other than the active one, and the merge
\* of its results, leave the playing video at currentIndex: it is removed
\* neither by the call nor before the scheduled swap moves the pointer.
\* Stated of the steps of either hook that has a replace mode.
C4_ReplaceKeepsCurrent ==
    [][ (HasIndex(videos, currentIndex) /\ (TruncationStep \/ ReplaceMergeStep))
            => SameCurrentVideo ]_qvars

\* The continuation of any call.
MergeStep == \E call \in BagToSet(inflight) : Settled(call)

\* s is t with some entries left out.
RECURSIVE IsSubsequence(_, _)
IsSubsequence(s, t) ==
    IF s = <<>> THEN TRUE
    ELSE IF t = <<>> THEN FALSE
    ELSE IF Head(s) = Head(t) THEN IsSubsequence(Tail(s), Tail(t))
    ELSE IsSubsequence(s, Tail(t))

\* C5: every completion merges into videos and currentIndex as they are when
\* it runs: no video already in the queue (one added by an earlier
\* completion included) is lost, and currentIndex designates the same video
\* after the index adjustment, in whatever order overlapping searches settle.
C5_MergeOnLatestState ==
    [][ MergeStep =>
          /\ IsSubsequence(videos, videos')
          /\ HasIndex(videos, currentIndex) => SameCurrentVideo ]_qvars

\* No search has been issued since the last clearQueue (or since the hook
\* mounted): a replace call that searches sets currentQueryRef, an append
\* call that searches is recorded in appendSearched, and only clearQueue
\* resets the two.
NoCallSinceClear == currentQueryRef = <<>> /\ appendSearched = {}

\* C6: whatever was in flight or scheduled when clearQueue ran is discarded:
\* until a call made after the clear has searched, videos stays empty and
\* currentIndex stays 0.
C6_ClearDiscardsLate == NoCallSinceClear => (videos = <<>> /\ currentIndex = 0)

\* The current query's key, as the replace branch compares it.
ActiveQueryKey == ToLowerCase(currentQueryRef)

\* C7: once everything has settled after a replace call, every video at or
\* after currentIndex that a replace-mode search delivered was delivered by
\* the search for the current query: results of a superseded replace query
\* are not there.
C7_OnlyCurrentQueryAhead ==
    (Settledown /\ currentQueryRef # <<>>) =>
        \A i \in 0..(Len(videos) - 1) :
            (i >= currentIndex /\ At(videos, i).replace) =>
                At(videos, i).q = ActiveQueryKey

\* The videos a replace-mode search delivered, and the others, in order.
NewItems(vs) == SelectSeq(vs, LAMBDA v : v.replace)
OldItems(vs) == SelectSeq(vs, LAMBDA v : ~v.replace)

\* The advance moves the pointer by one, onto the first newly appended video.
AdvanceToFirstNew ==
    /\ currentIndex' = currentIndex + 1
    /\ NewItems(videos) # <<>>
    /\ HasIndex(videos', currentIndex')
    /\ At(videos', currentIndex') = Head(NewItems(videos))

\* The removal takes out the previously playing video (the last of the old
\* ones, when there is one) and nothing else, and the pointer is on the
\* first newly appended video.
RemovalSwapsOut ==
    /\ videos' = IF OldItems(videos) = <<>> THEN videos
                 ELSE RemoveAt(videos, Len(OldItems(videos)) - 1)
    /\ NewItems(videos) # <<>>
    /\ HasIndex(videos', currentIndex')
    /\ At(videos', currentIndex') = Head(NewItems(videos))

\* C8: after a replace call that appended at least one new video, with no
\* other queue operation following, the advance moves currentIndex forward
\* by one to the first newly appended video, and the removal takes out the
\* previously playing video only, leaving currentIndex on that first new
\* video: for every starting queue, the empty one included.
C8_SwapChoreography ==
    [][ \A k \in 1..Len(timers) :
          /\ AdvanceFires(k) => AdvanceToFirstNew
          /\ RemoveFires(k) => RemovalSwapsOut ]_qvars

\* The continuation of an append call with the default autoScroll.
AppendMergeStep(call) == ~call.replace /\ ~call.autoScroll /\ Settled(call)

\* What the search of `call` can deliver.
PossibleBatches(call) == { NewVideos(call, outcome) : outcome \in Outcomes }

\* R restricted to the ids that are not in items, order preserved.
UniqueInsertions(R, items) == SelectSeq(R, LAMBDA v : v.id \notin Ids(items))

\* C9: an append merge of batch R gives videos' = U ++ videos, U being R
\* without the ids already queued, and currentIndex' = 0 when the queue was
\* empty, otherwise currentIndex + |U|, the number of unique insertions.
C9_AppendMerge ==
    [][ \A call \in BagToSet(inflight) :
          AppendMergeStep(call) =>
            \E R \in PossibleBatches(call) :
               LET U == UniqueInsertions(R, videos) IN
               /\ videos' = U \o videos
               /\ currentIndex' = IF videos = <<>> THEN 0
                                  ELSE currentIndex + Len(U) ]_qvars

\* The step is an append call that issued a search.
AppendIssueStep(call) == ~call.replace /\ Issued(call)

SameAsActive(query) ==
    ~IsBlankQuery(query) /\ NormalizeQuery(query) = ActiveQueryKey

\* C11: a replace call whose query equals the active query after trim and
\* lower-casing is a no-op: no step of the hook is such a call doing
\* anything, so no search is issued and videos, currentIndex,
\* searchedQueriesRef and currentQueryRef keep their values, also while the
\* search that made the query active is still in flight.
C11_SameQueryReplaceIsNoOp ==
    [][ \A query \in RawQueries :
          (SameAsActive(query) /\ AddVideosFromQuery(query, TRUE, FALSE))
              => UNCHANGED qvars ]_qvars

\* The replace search that made the query active is still in flight, and a
\* second producer can pass the same query in another spelling.
C11_Witness ==
    /\ \E call \in BagToSet(inflight) :
          call.replace /\ call.normalizedQuery = ActiveQueryKey
    /\ \E query \in RawQueries :
          /\ query # currentQueryRef
          /\ SameAsActive(query)
          /\ ReturnsEarly(query, TRUE)

\* The outcome of a search that failed.
FailedOutcome == [ok |-> FALSE, ids |-> <<>>]

\* C12: when the search of a call fails, an error becomes visible and the
\* continuation leaves videos and currentIndex as they were.
C12_FailureKeepsQueue ==
    [][ \A call \in BagToSet(inflight) :
          SearchCompletes(call, FailedOutcome) =>
              /\ error' # NULL
              /\ videos' = videos
              /\ currentIndex' = currentIndex ]_qvars

\* The pointer is on the last video of a queue that has one.
AtLastIndex == videos # <<>> /\ currentIndex = Len(videos) - 1

\* C29: goToPrevious() at index 0 and goToNext() at the last index change
\* neither currentIndex nor videos and schedule no trim.
C29_EdgeNavigationIsNoOp ==
    [][ /\ (currentIndex = 0 /\ GoToPrevious) =>
              UNCHANGED <<currentIndex, videos, timers>>
        /\ (AtLastIndex /\ GoToNext) =>
              UNCHANGED <<currentIndex, videos, timers>> ]_qvars

\* goToNext() has moved the pointer to the last of several videos.
C29_Witness ==
    /\ navs > 0
    /\ Len(videos) >= 2
    /\ AtLastIndex

\* Every video of the batch is queued already.
NothingNew(batch, queued) == \A i \in 1..Len(batch) : batch[i].id \in Ids(queued)

\* The continuation of `call` whose search brought nothing new.
ZeroUniqueStep(call) ==
    \E outcome \in Outcomes :
       /\ NothingNew(NewVideos(call, outcome), videos)
       /\ SearchCompletes(call, outcome)

\* The synchronous part of a call whose search may bring nothing new for the
\* queue the call leaves.
ZeroUniqueCall(call) ==
    /\ Issued(call)
    /\ \E outcome \in Outcomes : NothingNew(NewVideos(call, outcome), videos')

\* C30 as stated: an enqueue whose search yields no video that is not queued
\* already leaves videos and currentIndex as they were before the call and
\* schedules nothing; an append call records its query as searched.
C30_ZeroUniqueKeepsCallQueue ==
    [][ /\ \A call \in BagToSet(inflight') :
              ZeroUniqueCall(call) =>
                /\ UNCHANGED <<videos, currentIndex, timers>>
                /\ ~call.replace => call.normalizedQuery \in searchedQueriesRef'
        /\ \A call \in BagToSet(inflight) :
              ZeroUniqueStep(call) =>
                UNCHANGED <<videos, currentIndex, timers>> ]_qvars

\* C30, amended: the continuation of a search that yields no video that is
\* not queued already leaves videos, currentIndex and the scheduled steps as
\* they were when the search settled; an append call leaves them as they were
\* before the call and records its query as searched, a replace call may
\* drop the videos after the current one before it searches.
C30_ZeroUniqueKeepsSettledQueue ==
    [][ /\ \A call \in BagToSet(inflight') :
              /\ (ZeroUniqueCall(call) /\ ~call.replace) =>
                    /\ UNCHANGED <<videos, currentIndex, timers>>
                    /\ call.normalizedQuery \in searchedQueriesRef'
              /\ (ZeroUniqueCall(call) /\ call.replace) =>
                    /\ videos' = ReplaceTruncate(videos, currentIndexRef)
                    /\ UNCHANGED <<currentIndex, timers>>
        /\ \A call \in BagToSet(inflight) :
              ZeroUniqueStep(call) =>
                /\ UNCHANGED <<videos, currentIndex, timers>>
                /\ ~call.replace => UNCHANGED searchedQueriesRef ]_qvars

\* The search of a replace call has settled without adding a video.
C30_Witness ==
    /\ searchCalls = 2
    /\ inflight = EmptyBag
    /\ currentQueryRef # <<>>
    /\ videos # <<>>
    /\ \A i \in 1..Len(videos) : ~videos[i].replace
    /\ timers = <<>>

\* The call addVideosFromQuery(query, replace) searches.
Searches(query, replace) == ~ReturnsEarly(query, replace)

\* C31: clearQueue empties videos, sets currentIndex to 0 and clears
\* searchedQueriesRef and currentQueryRef; from then on, until a call has
\* searched, every non-blank query searches, in either mode.
C31_ClearResetsDedup ==
    /\ [][ ClearQueue =>
              /\ videos' = <<>> /\ currentIndex' = 0
              /\ searchedQueriesRef' = {} /\ currentQueryRef' = <<>> ]_qvars
    /\ [](NoCallSinceClear =>
              \A query \in RawQueries, replace \in BOOLEAN :
                  ~IsBlankQuery(query) => Searches(query, replace))

\* A search that succeeds and delivers the very videos of the static payload.
SameVideosOutcome == [ok |-> TRUE, ids |-> FallbackIds]

\* C32: the state that the continuation of a failed search leaves, with the
\* static payload merged, differs in something observable from the state
\* that a successful search delivering the same videos would have left.
C32_FallbackDistinguishable ==
    [][ \A call \in BagToSet(inflight) :
          SearchCompletes(call, FailedOutcome) =>
              ~SearchCompletes(call, SameVideosOutcome) ]_qvars

\* The trim that goToNext scheduled for the position still playing.
TrimOfPosition(k) == TrimFires(k) /\ timers[k].idx = currentIndex

\* C33: goToNext leaves videos alone in its own step; the trim it deferred
\* keeps the playing video and the four after it, and drops the videos
\* before the playing one, so that at most TrimWindow videos remain.
C33_TrimKeepsWindowOnly ==
    [][ /\ GoToNext => videos' = videos
        /\ \A k \in DOMAIN timers :
              TrimOfPosition(k) =>
                  /\ \A i \in (currentIndex + 1)..Min(currentIndex + TrimWindow, Len(videos)) :
                        \E j \in 1..Len(videos') : videos'[j] = videos[i]
                  /\ \A i \in 1..currentIndex :
                        \A j \in 1..Len(videos') : videos'[j] # videos[i]
                  /\ Len(videos') <= TrimWindow ]_qvars

\* C35: a call of addVideosFromQuery whose query is empty after trimming,
\* in replace or in append mode, issues no search and leaves videos,
\* currentIndex, searchedQueriesRef, currentQueryRef, isLoading and error as
\* they were.
C35_BlankQueryIsNoOp ==
    [][ \A query \in RawQueries, replace \in BOOLEAN, autoScroll \in BOOLEAN :
          Trim(query) = <<>> /\ AddVideosFromQuery(query, replace, autoScroll) =>
              /\ inflight' = inflight /\ searchCalls' = searchCalls
              /\ UNCHANGED <<videos, currentIndex, searchedQueriesRef,
                             currentQueryRef, isLoading, error>> ]_qvars

\* A blank query is given in a state where only the blank test stops it:
\* it differs from currentQueryRef, was not searched, and the queue has
\* videos and a search in flight that it would disturb.
C35_Witness ==
    /\ \E query \in RawQueries :
          /\ Trim(query) = <<>>
          /\ IsDifferentQuery(NormalizeQuery(query), currentQueryRef)
          /\ ~AlreadySearched(NormalizeQuery(query), searchedQueriesRef)
    /\ videos # <<>> /\ isLoading /\ inflight # EmptyBag
    /\ searchCalls < MaxDedupSearches

\* C38: isLoading is TRUE exactly while a search issued by
\* addVideosFromQuery is in flight, also when searches overlap.
C38_LoadingIffSearchInFlight == isLoading <=> (inflight # EmptyBag)

-----------------------------------------------------------------------------
(* Properties of the recognition scheduler *)

\* C13: any two calls of the recognition service are at least intervalMs
\* apart, whatever the order of the warm-up timer, the repeating ticks, the
\* deferred captures and the capture completions, and also when start() is
\* called again shortly after a previous cycle.
C13_RateLimited ==
    \A i, j \in 1..Len(sched.calls) :
        i < j => sched.calls[j].at - sched.calls[i].at >= IntervalMs

\* The scheduler is disabled, a capture is recording or a recognition call is
\* outstanding.
Busy(s) == ~s.isEnabled \/ s.recording # {} \/ s.requests # {}

\* C14: at most one capture is recording and at most one recognition call is
\* outstanding at any time, and a tick of the repeating timer that fires
\* while the scheduler is disabled, a capture is recording or a recognition
\* call is outstanding starts no capture.
C14_OneAtATime ==
    [][ /\ Cardinality(sched'.recording) <= 1
        /\ Cardinality(sched'.requests) <= 1
        /\ (IntervalFires /\ Busy(sched)) => sched'.captures = sched.captures
      ]_sched

\* The step is the answer `key` of the recognition service to request req.
IdentifiedAs(req, key) == sched' = Commit(sched, Identified(sched, req, key))

\* No two neighbours of the sequence are equal.
NoRepeat(keys) == \A i \in 1..(Len(keys) - 1) : keys[i] # keys[i + 1]

\* C15: an identification whose track key equals lastTrackKeyRef invokes no
\* callback; one whose key differs invokes the callback once with that key
\* and records the key; the callback is invoked by nothing else, so it never
\* receives the same key twice in a row.
C15_CallbackOncePerNewKey ==
    [][ /\ \A req \in sched.requests, key \in TrackKeys :
              IdentifiedAs(req, key) =>
                  IF key = sched.lastTrackKeyRef
                  THEN sched'.callbacks = sched.callbacks
                  ELSE /\ sched'.callbacks = Append(sched.callbacks, key)
                       /\ sched'.lastTrackKeyRef = key
        /\ sched'.callbacks # sched.callbacks =>
              \E req \in sched.requests, key \in TrackKeys : IdentifiedAs(req, key)
        /\ NoRepeat(sched'.callbacks)
      ]_sched

\* Two identifications in a row named the same track and the callback ran
\* for the first of them only.
C15_Witness ==
    /\ Len(sched.answers) = 2
    /\ sched.answers[1] \in TrackKeys
    /\ sched.answers[2] = sched.answers[1]
    /\ sched.callbacks = <<sched.answers[1]>>

\* C16: between stop() and the next start() no capture is started and no
\* recognition call is issued.
C16_QuietAfterStop ==
    [][ (sched.stopped /\ sched'.stopped) =>
            /\ sched'.captures = sched.captures
            /\ sched'.calls = sched.calls ]_sched

\* C17: while the scheduler stays disabled no capture is started and no
\* recognition call is issued.
C17_QuietWhileDisabled ==
    [][ (~sched.isEnabled /\ ~sched'.isEnabled) =>
            /\ sched'.captures = sched.captures
            /\ sched'.calls = sched.calls ]_sched

\* C18: in a session started with start() and not stopped, the repeating
\* tick is armed whenever the scheduler is enabled, so that captures are
\* attempted again after setEnabled(false) and setEnabled(true) without a
\* new start(), for either value of autoStart.
C18_TicksWhileEnabled ==
    (sched.started /\ ~sched.stopped /\ sched.isEnabled) =>
        sched.intervalRef # NoTimer

\* C19: no captured sample is sent to the recognition service twice.
C19_SampleSentOnce ==
    \A i, j \in 1..Len(sched.calls) :
        i < j => sched.calls[i].sample # sched.calls[j].sample

\* C20: a sample below the usable size is never sent to the recognition
\* service and raises no error.
C20_SmallSampleNotSent ==
    /\ \A i \in 1..Len(sched.calls) : sched.calls[i].size >= MinUsableSize
    /\ (HasBlob(sched) /\ sched.audioBlob.size < MinUsableSize) =>
           sched.shazamError = NULL

\* C21: once getUserMedia has been refused, the session makes no further
\* capture attempt: getUserMedia is not called again until startListening
\* starts a new session.
C21_NoCaptureAfterRefusal ==
    [][ (sched.refused /\ sched'.refused) =>
            sched'.captures = sched.captures ]_sched

\* No capture is under way: the capture hook is not listening, is not waiting
\* for the microphone or for a recorder's stop event, and no auto-stop is
\* pending.
NoCaptureActive(s) ==
    /\ ~s.isListening /\ ~s.isCapturing
    /\ s.acquiring = 0 /\ s.stopping = {}
    /\ \A t \in s.tmrs : t.kind # "autostop"

\* C22: every microphone stream that was acquired is released on every way
\* out of a capture; whenever no capture is active, no stream is held.
C22_NoStreamWithoutCapture ==
    NoCaptureActive(sched) => sched.streams = {}

\* C23: at most one microphone stream is held and at most one recorder is
\* recording at any time, also when startCapture is called while a capture
\* is active or another call is waiting for the microphone.
C23_OneCaptureAtATime ==
    /\ Cardinality(sched.streams) <= 1
    /\ Cardinality(sched.recording) <= 1

\* The recognition of a usable sample settles without a match.
NoMatchStep(req) ==
    /\ req.size >= MinUsableSize
    /\ sched' = Commit(sched, Identified(sched, req, NoMatch))

\* C24: a no-match answer is not an error: it leaves the error of the
\* recognition client unset and the error the scheduler reports null.
C24_NoMatchIsNotAnError ==
    [][ \A req \in sched.requests :
          NoMatchStep(req) =>
              /\ sched'.shazamError = NULL
              /\ sched.captureError = NULL => ReportedError(sched') = NULL ]_sched

\* identifySong has been called since startListening started the session.
AttemptedInSession(s) == s.attempts >= 1 /\ s.lastApiCallTimeRef # 0

\* C25: without a recognize URL identifySong sends no request, and its
\* outcome ends the attempts: once it has been called in a session, it is
\* not called again in that session.
C25_UnconfiguredNotRetried ==
    [][ ~sched.configured =>
            /\ sched'.calls = <<>> /\ sched'.requests = {}
            /\ AttemptedInSession(sched) => sched'.attempts = sched.attempts ]_sched

\* C36: the first identification of a track since startListening, in a
\* session that was not stopped, invokes the callback with the track, also
\* in a session started again after a stop when the track is the one last
\* identified before.
C36_FirstIdentificationCallsBack ==
    [][ \A req \in sched.requests, key \in TrackKeys :
          (IdentifiedAs(req, key) /\ sched.started /\ ~sched.stopped
                                  /\ ~sched.identified) =>
              sched'.callbacks = Append(sched.callbacks, key) ]_sched

\* The stop event of the recorder e is handled, with `size` recorded.
StopHandled(e, size) == sched' = Commit(sched, OnStop(sched, e, size))

\* C37: the stop handler of a recorder releases no stream but the one it
\* recorded, and the sample it publishes is made of its own data only.
C37_StopHandlerKeepsToItsSession ==
    [][ \A e \in sched.stopping : \A size \in SampleSizes(e.early) :
          StopHandled(e, size) =>
              /\ sched.streams \ {e.id} \subseteq sched'.streams
              /\ \A c \in sched'.chunksRef : c.id = e.id ]_sched

\* The request req is answered without a match, or fails.
AttemptFails(req) == sched' = Commit(sched, Identified(sched, req, NoMatch))

\* Every call of identifySong is answered and the last answer was a failure,
\* early enough for the session to go on in the time modelled.
FailedAttempt ==
    /\ sched.requests = {}
    /\ Len(sched.answers) >= 1 /\ sched.answers[Len(sched.answers)] = NoMatch
    /\ sched.now <= LiveMaxTime - RetryWithin

\* C34: a failed recognition attempt leaves lastTrackKeyRef as it was,
\* invokes no callback and keeps the interval of the scheduler; in a session
\* that stays started and enabled another attempt is made after it.
C34_FailureKeepsTicking ==
    /\ [][ \A req \in sched.requests :
              AttemptFails(req) =>
                  /\ sched'.lastTrackKeyRef = sched.lastTrackKeyRef
                  /\ sched'.callbacks = sched.callbacks
                  /\ sched'.intervalRef = sched.intervalRef
                  /\ sched'.intervalRef # NoTimer ]_sched
    /\ FailedAttempt ~> (sched.requests # {})

\* An attempt failed and a later attempt was made.
C34_Witness ==
    \E i \in 1..Len(sched.answers) :
        /\ sched.answers[i] = NoMatch
        /\ Len(sched.calls) > i
        /\ sched.lastTrackKeyRef = NULL /\ sched.callbacks = <<>>

-----------------------------------------------------------------------------
(* Properties of the continuous transcription hook *)

\* The step emits a transcript.
Emits == Len(listen'.emitted) = Len(listen.emitted) + 1

C27_QuietAfterStopListening ==
    [][ listen'.stopped =>
          /\ listen'.recognitionRef = NoSession /\ listen'.running = {}
          /\ listen'.intervals = {}
          /\ listen.stopped => listen'.emitted = listen.emitted ]_listen

\* The session the hook holds has ended and is to be restarted.
HeldEnded(l) ==
    /\ l.shouldRestartRef
    /\ l.recognitionRef # NoSession
    /\ l.recognitionRef \notin l.running

\* C28: when the session held by the hook ends while shouldRestart is true,
\* it is running again after the restart delay unless stop() intervenes; a
\* session that stop() released is never started again, and no session
\* starts while shouldRestart is false.
C28_RestartUnlessStopped ==
    /\ HeldEnded(listen) ~> (listen.recognitionRef \in listen.running
                                \/ ~listen.shouldRestartRef)
    /\ [](listen.released \cap listen.running = {})
    /\ [][ (~listen.shouldRestartRef /\ ~listen'.shouldRestartRef) =>
              listen'.running \subseteq listen.running ]_listen

\* The restart timer has started a session again, stop() has released a
\* session, and the session of a later start() is running.
C28_Witness ==
    /\ listen.restarted > 0
    /\ listen.recognitionRef \in listen.running
    /\ listen.released # {}
-----------------------------------------------------------------------------
(* Properties of the recognize server *)

AnsweredNow(id) ==
    \E r \in server.requests, q \in server'.requests :
        r.id = id /\ q.id = id /\ r.state # "answered" /\ q.state = "answered"

\* C40: the file of a request leaves the upload directory, replaced or
\* removed, only in the step that answers this request, and the file the
\* engine reads for a request is the file this request uploaded.
C40_NoSharedTemporaryFile ==
    [][ /\ \A f \in server.files :
              f \notin server'.files => AnsweredNow(f.writer)
        /\ \A q \in server'.requests :
              q.read # 0 => q.read = q.id ]_server

====
